---- MODULE Spec2Model ----
(***************************************************************************)
(* Model of the authentication core of vpnbot-backend:                     *)
(*   shared/core/security/token.py  (TokenManager)                         *)
(*   shared/core/security/auth.py   (AuthenticationManager)                *)
(* One bearer-token resolution (get_current_user) is followed stage by     *)
(* stage while the clock advances, users log in (tokens are issued) and    *)
(* the user store changes.                                                 *)
(***************************************************************************)
EXTENDS Integers, Sequences, FiniteSets, TLC

\* ------------------------------------------------------------------------
\* Configuration (shared/core/settings/settings.py)
\* ------------------------------------------------------------------------
TOKEN_EXPIRE_MINUTES == 1440

TOKEN_ALGORITHM == "HS256"

TOKEN_SECRET_KEY == "SECRET"

\* ------------------------------------------------------------------------
\* Bounds of the model
\* ------------------------------------------------------------------------
\* clock reading (epoch seconds) in the initial state
StartTime == 5

\* number of clock advances in one behaviour
MaxTicks == 2

\* ------------------------------------------------------------------------
\* JSON values carried by a token's claim set.  t is the JSON type, s the
\* text of a string, n the number (a bool is 0/1, as Python compares it).
\* ------------------------------------------------------------------------
Absent == [t |-> "absent", s |-> "", n |-> 0]

Null == [t |-> "null", s |-> "", n |-> 0]

JStr(x) == [t |-> "str", s |-> x, n |-> 0]

JInt(x) == [t |-> "int", s |-> "", n |-> x]

JBool(b) == [t |-> "bool", s |-> "", n |-> IF b THEN 1 ELSE 0]

\* ------------------------------------------------------------------------
\* TokenManager.get_token_expiration
\* ------------------------------------------------------------------------
get_token_expiration_minutes == TOKEN_EXPIRE_MINUTES

get_token_expiration == TOKEN_EXPIRE_MINUTES * 60

\* ------------------------------------------------------------------------
\* The user store behind AuthService.get_user_by_identifier.  A stored user
\* is a record; NoUser is the collaborator's None.
\* ------------------------------------------------------------------------
Emails == {"ann@x", "bob@x"}

\* roles the user schema accepts; a stored row may carry another value
Roles == {"user", "admin"}

NoUser ==
    [present |-> FALSE, id |-> 0, username |-> "", email |-> "",
     role |-> "", is_active |-> FALSE, is_verified |-> FALSE]

UserRow(e, r, a, v) ==
    [present |-> TRUE,
     id |-> IF e = "ann@x" THEN 1 ELSE 2,
     username |-> IF e = "ann@x" THEN "ann" ELSE "bob",
     email |-> e, role |-> r, is_active |-> a, is_verified |-> v]

\* what the store may hold for e-mail e ("legacy" is not a schema role)
RowsOf(e) ==
    IF e = "ann@x"
    THEN {UserRow(e, "user", TRUE, TRUE), UserRow(e, "admin", FALSE, FALSE),
          UserRow(e, "legacy", TRUE, TRUE), NoUser}
    ELSE {UserRow(e, "user", TRUE, FALSE)}

\* ------------------------------------------------------------------------
\* Tokens.  A compact JWS has a header (alg), a claims segment and a
\* signature; the signature is the MAC of (key, alg, claims segment), flip
\* marks a flipped byte.  form: "none" (no credential), "empty", "garbage" (not a JWS),
\* "jws".
\* ------------------------------------------------------------------------
ClaimSet(sub, expires_at, exp, user_id, is_verified, role) ==
    [sub |-> sub, expires_at |-> expires_at, exp |-> exp,
     user_id |-> user_id, is_verified |-> is_verified, role |-> role]

NoClaims == ClaimSet(Absent, Absent, Absent, Absent, Absent, Absent)

ClaimNames == {"sub", "expires_at", "exp", "user_id", "is_verified", "role"}

json_dumps_drop_false(claims) ==
    [n \in {m \in ClaimNames : claims[m] \notin {Absent, JBool(FALSE)}}
        |-> claims[n]]

\* the JSON object jwt.encode serialises: one member per key of the dict
json_dumps(claims) ==
    [n \in {m \in ClaimNames : claims[m] # Absent} |-> claims[n]]

\* the dict jwt.decode parses, read with payload.get (Absent for no key)
json_loads(body) ==
    [n \in ClaimNames |-> IF n \in DOMAIN body THEN body[n] ELSE Absent]

NoBody == json_dumps(NoClaims)

Sign(key, alg, claims) ==
    [key |-> key, alg |-> alg, claims |-> claims, flip |-> FALSE]

NoSig == [key |-> "", alg |-> "", claims |-> NoBody, flip |-> FALSE]

NoneToken == [form |-> "none", alg |-> "", claims |-> NoBody, sig |-> NoSig]

EmptyToken == [form |-> "empty", alg |-> "", claims |-> NoBody, sig |-> NoSig]

GarbageToken ==
    [form |-> "garbage", alg |-> "", claims |-> NoBody, sig |-> NoSig]

\* jose.jwt.encode as called by TokenManager.generate_token: the claims
\* segment is the serialised dict, the signature covers header and segment
jwt_encode(claims, key, algorithm) ==
    [form |-> "jws", alg |-> algorithm, claims |-> json_dumps(claims),
     sig |-> Sign(key, algorithm, json_dumps(claims))]

\* TokenManager.generate_token
generate_token(payload) ==
    jwt_encode(payload, TOKEN_SECRET_KEY, TOKEN_ALGORITHM)

\* TokenManager.create_payload, the clock reading t
create_payload(user, t) ==
    ClaimSet(JStr(user.email), JInt(t + get_token_expiration), Absent,
             JInt(user.id), JBool(user.is_verified), JStr(user.role))

Falsy_none_only(token) == token.form = "none"

\* Python truthiness of a token string (None and "" are falsy)
Falsy(token) == token.form \in {"none", "empty"}

\* a token that carries the MAC of its own header and claims under the
\* configured secret and algorithm
Authentic(token) ==
    /\ token.form = "jws"
    /\ token.alg = TOKEN_ALGORITHM
    /\ token.sig = Sign(TOKEN_SECRET_KEY, TOKEN_ALGORITHM, token.claims)

\* ------------------------------------------------------------------------
\* Results: err = "" is a normal return, otherwise the exception's class.
\* ------------------------------------------------------------------------
Ok(claims) == [err |-> "", claims |-> claims]

Raise(kind) == [err |-> kind, claims |-> NoClaims]

\* jose.jwt.decode as called by TokenManager.decode_token, the clock
\* reading t: structure, allowed algorithm, signature, then the registered
\* claims exp (int(None) is a TypeError, int("never") a claims error) and
\* sub
jwt_decode(token, key, algorithms, t) ==
    IF token.form # "jws" THEN Raise("JWTError")
    ELSE IF token.alg \notin algorithms THEN Raise("JWTError")
    ELSE IF token.sig # Sign(key, token.alg, token.claims)
         THEN Raise("JWTError")
    ELSE LET claims == json_loads(token.claims)
         IN  IF claims.exp.t = "null" THEN Raise("TypeError")
             ELSE IF claims.exp.t \notin {"absent", "int"}
                  THEN Raise("JWTClaimsError")
             ELSE IF claims.exp.t = "int" /\ claims.exp.n < t
                  THEN Raise("ExpiredSignatureError")
             ELSE IF claims.sub.t \notin {"absent", "str"}
                  THEN Raise("JWTClaimsError")
             ELSE Ok(claims)

decode_token_noverify(token, t) ==
    IF token.form = "jws" THEN Ok(json_loads(token.claims))
    ELSE Raise("TokenInvalidError")

decode_token_header_alg(token, t) ==
    LET r == jwt_decode(token, TOKEN_SECRET_KEY, {token.alg}, t)
    IN  IF r.err = "ExpiredSignatureError" THEN Raise("TokenExpiredError")
        ELSE IF r.err \in {"JWTError", "JWTClaimsError"}
             THEN Raise("TokenInvalidError")
        ELSE r

\* TokenManager.decode_token
decode_token(token, t) ==
    LET r == jwt_decode(token, TOKEN_SECRET_KEY, {TOKEN_ALGORITHM}, t)
    IN  IF r.err = "ExpiredSignatureError" THEN Raise("TokenExpiredError")
        ELSE IF r.err \in {"JWTError", "JWTClaimsError"}
             THEN Raise("TokenInvalidError")
        ELSE r

verify_token_decode_first(token, t) ==
    IF decode_token(token, t).err # "" THEN decode_token(token, t)
    ELSE IF Falsy(token) THEN Raise("TokenMissingError")
    ELSE decode_token(token, t)

\* TokenManager.verify_token
verify_token(token, t) ==
    IF Falsy(token) THEN Raise("TokenMissingError")
    ELSE decode_token(token, t)

\* the functions a call of verify_token enters, in order
verify_token_calls(token) ==
    IF Falsy(token) THEN <<"verify_token">>
    ELSE <<"verify_token", "decode_token">>

is_expired_exact(expires_at, t) ==
    IF expires_at.t \in {"int", "bool"}
    THEN IF t = expires_at.n + 1 THEN "expired" ELSE ""
    ELSE "TypeError"

is_expired_nonstrict(expires_at, t) ==
    IF expires_at.t \in {"int", "bool"}
    THEN IF t >= expires_at.n THEN "expired" ELSE ""
    ELSE "TypeError"

\* TokenManager.is_expired, the clock reading t: "" when the comparison
\* current_timestamp > expires_at is False, "expired" when it is True,
\* "TypeError" when Python cannot order an int and the value
is_expired(expires_at, t) ==
    IF expires_at.t \in {"int", "bool"}
    THEN IF t > expires_at.n THEN "expired" ELSE ""
    ELSE "TypeError"

validate_payload_nocheck(payload, t) ==
    [err |-> "",
     email |-> IF payload.sub.t = "str" THEN payload.sub.s ELSE "",
     examined |-> FALSE]

validate_payload_expiry_first(payload, t) ==
    LET email == payload.sub
        expires_at == payload.expires_at
    IN  IF is_expired(expires_at, t) = "TypeError"
        THEN [err |-> "TypeError", email |-> "", examined |-> TRUE]
        ELSE IF is_expired(expires_at, t) = "expired"
             THEN [err |-> "TokenExpiredError", email |-> "", examined |-> TRUE]
        ELSE IF email.t \in {"absent", "null"} \/ (email.t = "str" /\ email.s = "")
             THEN [err |-> "InvalidCredentialsError", email |-> "",
                   examined |-> TRUE]
        ELSE [err |-> "", email |-> email.s, examined |-> TRUE]

validate_payload_wrong_kind(payload, t) ==
    LET email == payload.sub
        expires_at == payload.expires_at
    IN  IF email.t \in {"absent", "null"} \/ (email.t = "str" /\ email.s = "")
        THEN [err |-> "TokenInvalidError", email |-> "", examined |-> FALSE]
        ELSE IF is_expired(expires_at, t) = "TypeError"
             THEN [err |-> "TypeError", email |-> "", examined |-> TRUE]
        ELSE IF is_expired(expires_at, t) = "expired"
             THEN [err |-> "TokenExpiredError", email |-> "", examined |-> TRUE]
        ELSE [err |-> "", email |-> email.s, examined |-> TRUE]

\* TokenManager.validate_payload: err, the e-mail returned, and whether
\* is_expired was called (it reads the clock)
validate_payload(payload, t) ==
    LET email == payload.sub
        expires_at == payload.expires_at
    IN  IF email.t \in {"absent", "null"} \/ (email.t = "str" /\ email.s = "")
        THEN [err |-> "InvalidCredentialsError", email |-> "", examined |-> FALSE]
        ELSE IF is_expired(expires_at, t) = "TypeError"
             THEN [err |-> "TypeError", email |-> "", examined |-> TRUE]
        ELSE IF is_expired(expires_at, t) = "expired"
             THEN [err |-> "TokenExpiredError", email |-> "", examined |-> TRUE]
        ELSE [err |-> "", email |-> email.s, examined |-> TRUE]

\* ------------------------------------------------------------------------
\* AuthenticationManager (shared/core/security/auth.py)
\* ------------------------------------------------------------------------
\* The Authorization header of a request: scheme and credential.
NoHeader == [scheme |-> "", param |-> NoneToken]

BasicHeader == [scheme |-> "Basic", param |-> GarbageToken]

Bearer(tok) == [scheme |-> "Bearer", param |-> tok]

\* oauth2_scheme = OAuth2PasswordBearer(..., auto_error=False): the
\* credential of a Bearer header, None otherwise
oauth2_scheme(h) == IF h.scheme = "Bearer" THEN h.param ELSE NoneToken

\* the exception classes derived from TokenError
TokenErrors ==
    {"TokenMissingError", "TokenExpiredError", "TokenInvalidError",
     "InvalidCredentialsError"}

Surface_all_invalid(kind) == "TokenInvalidError"

Surface_passthrough(kind) == kind

Surface_credentials(kind) ==
    IF kind \in TokenErrors THEN kind ELSE "InvalidCredentialsError"

\* the except clauses of get_current_user: a TokenError is re-raised,
\* any other Exception becomes TokenInvalidError
Surface(kind) == IF kind \in TokenErrors THEN kind ELSE "TokenInvalidError"

\* if not user: raise InvalidCredentialsError()
AbsentUserError_invalid == "TokenInvalidError"

AbsentUserError == "InvalidCredentialsError"

\* AuthService.get_user_by_identifier on the store
get_user_by_identifier(store, email) ==
    IF email \in DOMAIN store THEN store[email] ELSE NoUser

\* UserCredentialsSchema.model_validate: "" or "ValidationError"
model_validate(u) == IF u.role \in Roles THEN "" ELSE "ValidationError"

NoIdentity ==
    [id |-> 0, username |-> "", email |-> "", role |-> "",
     is_active |-> FALSE, is_verified |-> FALSE]

CurrentUserSchema_username(u) ==
    [id |-> u.id, username |-> u.username, email |-> u.username,
     role |-> u.role, is_active |-> u.is_active,
     is_verified |-> u.is_verified]

\* CurrentUserSchema(...) built from the validated user
CurrentUserSchema(u) ==
    [id |-> u.id, username |-> u.username, email |-> u.email,
     role |-> u.role, is_active |-> u.is_active,
     is_verified |-> u.is_verified]

\* ------------------------------------------------------------------------
\* Tokens a caller may present
\* ------------------------------------------------------------------------
Past == StartTime - 1

Soon == StartTime + 1

Far == StartTime + 10 * get_token_expiration

\* claim sets signed with the configured secret by a path other than
\* create_payload
CraftedClaims ==
    {ClaimSet(sub, JInt(Far), Absent, JInt(1), JBool(TRUE), JStr("user")) :
        sub \in {Absent, Null, JStr(""), JInt(7), JStr("ghost@x")}}
    \cup
    {ClaimSet(JStr("ann@x"), ea, Absent, JInt(1), JBool(TRUE), JStr("user")) :
        ea \in {Absent, Null, JStr("soon"), JBool(TRUE), JInt(Past),
                JInt(Soon), JInt(Far)}}
    \cup
    {ClaimSet(sub, ea, Absent, JInt(1), JBool(TRUE), JStr("user")) :
        sub \in {Absent, JStr("")}, ea \in {Absent, JInt(Past)}}
    \cup
    {ClaimSet(JStr("ann@x"), JInt(Far), exp, JInt(1), JBool(TRUE),
              JStr("user")) :
        exp \in {JInt(Past), JInt(Soon), JInt(Far), JStr("never"), Null}}
    \cup
    {ClaimSet(Absent, Absent, JInt(Past), JInt(1), JBool(TRUE), JStr("user"))}

\* what an attacker makes of a token: a flipped signature byte, claims
\* altered after signing, another header algorithm, another key
Forgeries(tok) ==
    {[tok EXCEPT !.sig.flip = TRUE],
     [tok EXCEPT !.claims =
         json_dumps([json_loads(@) EXCEPT !.role = JStr("root")])],
     [tok EXCEPT !.alg = "none", !.sig = NoSig],
     jwt_encode(json_loads(tok.claims), TOKEN_SECRET_KEY, "HS512"),
     jwt_encode(json_loads(tok.claims), "ATTACKER", TOKEN_ALGORITHM)}

TokenInputs(sess) ==
    {EmptyToken, GarbageToken}
    \cup {generate_token(c) : c \in CraftedClaims}
    \cup Forgeries(generate_token(
            ClaimSet(JStr("ann@x"), JInt(Far), Absent, JInt(1), JBool(TRUE),
                     JStr("user"))))
    \cup (IF sess.form = "jws" THEN {sess} \cup Forgeries(sess) ELSE {})

Headers(sess) ==
    {NoHeader, BasicHeader} \cup {Bearer(tok) : tok \in TokenInputs(sess)}

\* ------------------------------------------------------------------------
\* Passwords (shared/core/security/password.py).  A string is a sequence
\* of Unicode code points.
\* ------------------------------------------------------------------------
\* code point of a character of the modelled alphabet; the letters outside
\* ASCII are named: E-acute U+00C9, CYR-YO U+0401, CYR-YA U+042F and their
\* lower-case forms
Ord(ch) ==
    CASE ch = "!" -> 33  [] ch = "}" -> 125 [] ch = "_" -> 95
      [] ch = "1" -> 49  [] ch = "2" -> 50  [] ch = "3" -> 51
      [] ch = "4" -> 52  [] ch = "5" -> 53  [] ch = "6" -> 54
      [] ch = "7" -> 55  [] ch = "8" -> 56  [] ch = "9" -> 57
      [] ch = "A" -> 65  [] ch = "D" -> 68  [] ch = "E" -> 69
      [] ch = "H" -> 72  [] ch = "J" -> 74  [] ch = "M" -> 77
      [] ch = "N" -> 78  [] ch = "O" -> 79  [] ch = "Q" -> 81
      [] ch = "S" -> 83
      [] ch = "a" -> 97  [] ch = "b" -> 98  [] ch = "c" -> 99
      [] ch = "d" -> 100 [] ch = "e" -> 101 [] ch = "g" -> 103
      [] ch = "h" -> 104 [] ch = "i" -> 105 [] ch = "j" -> 106
      [] ch = "n" -> 110 [] ch = "o" -> 111 [] ch = "r" -> 114
      [] ch = "t" -> 116 [] ch = "w" -> 119 [] ch = "z" -> 122
      [] ch = "m" -> 109 [] ch = "p" -> 112 [] ch = "q" -> 113
      [] ch = "s" -> 115 [] ch = "y" -> 121
      [] ch = "E-acute" -> 201 [] ch = "e-acute" -> 233
      [] ch = "CYR-YO" -> 1025 [] ch = "CYR-YA" -> 1071
      [] ch = "cyr-ya" -> 1103 [] ch = "cyr-yo" -> 1105

\* the str written as a tuple of characters
Text(chars) == [i \in 1..Len(chars) |-> Ord(chars[i])]

\* str.lower() on one code point: ASCII, Latin-1, Cyrillic
lower_char(c) ==
    IF c \in 65..90 THEN c + 32
    ELSE IF c \in (192..222) \ {215} THEN c + 32
    ELSE IF c \in 1040..1071 THEN c + 32
    ELSE IF c \in 1024..1039 THEN c + 80
    ELSE c

\* str.lower()
lower(str) == [i \in 1..Len(str) |-> lower_char(str[i])]

\* needle in hay
Contains(hay, needle) ==
    \E i \in 0..(Len(hay) - Len(needle)) :
        SubSeq(hay, i + 1, i + Len(needle)) = needle

\* re.search(r"[A-Z<U+0410>-<U+042F>]", password)
search_upper(password) ==
    \E i \in 1..Len(password) :
        password[i] \in (65..90) \cup (1040..1071)

\* re.search(r"[a-z<U+0430>-<U+044F>]", password)
search_lower(password) ==
    \E i \in 1..Len(password) :
        password[i] \in (97..122) \cup (1072..1103)

\* re.search(r"\d", password), the decimal digits of the alphabet
search_digit(password) ==
    \E i \in 1..Len(password) : password[i] \in 48..57

\* re.search(r'[!@#$%^&*(),.?":{}|<>]', password)
search_special(password) ==
    \E i \in 1..Len(password) :
        password[i] \in {33, 64, 35, 36, 37, 94, 38, 42, 40, 41, 44, 46, 63,
                         34, 58, 123, 125, 124, 60, 62}

common_sequences ==
    {Text(<<"1", "2", "3", "4", "5">>),
     Text(<<"q", "w", "e", "r", "t", "y">>),
     Text(<<"p", "a", "s", "s", "w", "o", "r", "d">>),
     Text(<<"a", "d", "m", "i", "n">>),
     Text(<<"1", "2", "3", "4", "5", "6", "7", "8", "9">>),
     Text(<<"a", "b", "c", "1", "2", "3">>)}

\* the username argument: None, or a str
NoUsername == [given |-> FALSE, str |-> <<>>]

Username(chars) == [given |-> TRUE, str |-> Text(chars)]

\* one error message of validate_password_strength, or none
ErrorIf(cond, message) == IF cond THEN <<message>> ELSE <<>>

username_in_password_from_3(password, username) ==
    /\ username.given
    /\ username.str # <<>>
    /\ Len(username.str) >= 3
    /\ Contains(lower(password), lower(username.str))

\* if username and len(username) > 3: username.lower() in password.lower()
username_in_password(password, username) ==
    /\ username.given
    /\ username.str # <<>>
    /\ Len(username.str) > 3
    /\ Contains(lower(password), lower(username.str))

password_errors_first_only(password, username) ==
    IF Len(password) < 8 THEN <<"min_length">>
    ELSE IF ~search_upper(password) THEN <<"uppercase">>
    ELSE IF ~search_lower(password) THEN <<"lowercase">>
    ELSE IF ~search_digit(password) THEN <<"digit">>
    ELSE IF ~search_special(password) THEN <<"special">>
    ELSE IF \E seq \in common_sequences : Contains(lower(password), seq)
         THEN <<"common_sequence">>
    ELSE ErrorIf(username_in_password(password, username), "username")

\* the errors list of validate_password_strength, in the order appended
password_errors(password, username) ==
    ErrorIf(Len(password) < 8, "min_length")
    \o ErrorIf(~search_upper(password), "uppercase")
    \o ErrorIf(~search_lower(password), "lowercase")
    \o ErrorIf(~search_digit(password), "digit")
    \o ErrorIf(~search_special(password), "special")
    \o ErrorIf(\E seq \in common_sequences : Contains(lower(password), seq),
               "common_sequence")
    \o ErrorIf(username_in_password(password, username), "username")

validate_password_strength_tolerant(password, username) ==
    LET errors == password_errors(password, username)
    IN  IF Len(errors) > 1
        THEN [err |-> "WeakPasswordError", errors |-> errors, value |-> <<>>]
        ELSE [err |-> "", errors |-> <<>>, value |-> password]

\* BasePasswordValidator.validate_password_strength: the password
\* returned, or WeakPasswordError with the joined messages
validate_password_strength(password, username) ==
    LET errors == password_errors(password, username)
    IN  IF errors # <<>>
        THEN [err |-> "WeakPasswordError", errors |-> errors, value |-> <<>>]
        ELSE [err |-> "", errors |-> <<>>, value |-> password]

\* pwd_context = CryptContext(schemes=["argon2"], ...)
pwd_context ==
    [scheme |-> "argon2", time_cost |-> 2, memory_cost |-> 102400,
     parallelism |-> 8]

\* the Argon2 digest of a password under a salt and cost parameters
Digest(password, salt, ctx) ==
    [password |-> password, salt |-> salt, time_cost |-> ctx.time_cost,
     memory_cost |-> ctx.memory_cost, parallelism |-> ctx.parallelism]

\* a hash string: form "argon2" is a well-formed $argon2id$... string,
\* "malformed" has the argon2 prefix and a body that does not parse,
\* "unknown" is a string no scheme of the context identifies
HashString(form, salt, digest) ==
    [form |-> form, salt |-> salt, digest |-> digest]

NoHash == HashString("", 0, Digest(<<>>, 0, pwd_context))

UnknownHash == HashString("unknown", 0, Digest(<<>>, 0, pwd_context))

MalformedHash == HashString("malformed", 0, Digest(<<>>, 0, pwd_context))

hash_password_static_salt(password, salt) ==
    HashString(pwd_context.scheme, 0, Digest(password, 0, pwd_context))

\* PasswordHasher.hash_password, the salt the library draws
hash_password(password, salt) ==
    HashString(pwd_context.scheme, salt, Digest(password, salt, pwd_context))

\* pwd_context.verify(plain_password, hashed_password): the bool, or the
\* exception of passlib
context_verify(plain_password, hashed_password) ==
    IF hashed_password.form = "unknown"
    THEN [err |-> "UnknownHashError", value |-> FALSE]
    ELSE IF hashed_password.form = "malformed"
    THEN [err |-> "MalformedHashError", value |-> FALSE]
    ELSE [err |-> "",
          value |-> hashed_password.digest =
                      Digest(plain_password, hashed_password.salt,
                             pwd_context)]

\* PasswordHasher.verify: only UnknownHashError is caught
verify(hashed_password, plain_password) ==
    LET r == context_verify(plain_password, hashed_password)
    IN  IF r.err = "UnknownHashError" THEN [err |-> "", value |-> FALSE]
        ELSE r

\* ------------------------------------------------------------------------
\* State
\* ------------------------------------------------------------------------
VARIABLES
    now,         \* the UTC clock, epoch seconds
    ticks,       \* clock advances so far
    users,       \* the user store: e-mail -> row or NoUser
    session,     \* the token of the login, NoneToken before it
    issued_at,   \* clock reading of the login's create_payload
    pc,          \* stage the resolution is about to run
    header,      \* Authorization header of the request
    token,       \* get_current_user's token argument
    payload,     \* payload returned by verify_token
    user_email,  \* e-mail returned by validate_payload
    user,        \* user returned by the lookup
    checked_at,  \* clock reading of validate_payload (is_expired)
    raised,      \* the exception raised inside get_current_user
    outcome,     \* what the call returned or raised to its caller
    history,     \* stages run by the call so far
    direct,      \* a direct call of TokenManager and what it returned
    pwd,         \* calls of PasswordHasher and BasePasswordValidator
    previous,    \* what the call before this one returned, and for which token
    calls,       \* the frames of get_current_user calls running concurrently
    docs,        \* DocsAuthMiddleware: its auth_cache, the request, the response
    life         \* app.core.lifespan: the handler lists and the phase

vars ==
    <<now, ticks, users, session, issued_at, pc, header, token, payload, user_email,
      user, checked_at, raised, outcome, history, direct, pwd, previous, calls,
      docs, life>>

\* the state outside get_current_user, TokenManager and the password classes
rest == <<previous, calls, docs, life>>

env == <<now, ticks, users, session, issued_at>>

\* the state of get_current_user and TokenManager
auth ==
    <<now, ticks, users, session, issued_at, pc, header, token, payload,
      user_email, user, checked_at, raised, outcome, history, direct>>

NoRaise == [stage |-> "", kind |-> ""]

NoOutcome == [kind |-> "", identity |-> NoIdentity]

NoReads == [validate |-> 0]

\* no direct call of TokenManager is in progress
NoDirect ==
    [op |-> "", signed |-> FALSE, payload |-> NoClaims, token |-> NoneToken,
     result |-> Ok(NoClaims), calls |-> <<>>, at |-> 0]

NoValidation == [err |-> "", errors |-> <<>>, value |-> <<>>]

NoVerification == [err |-> "", value |-> FALSE]

\* no password has been hashed, verified or validated
NoPwd ==
    [op |-> "", hashes |-> <<>>, password |-> <<>>, username |-> NoUsername,
     hash |-> NoHash, validated |-> NoValidation,
     verified |-> NoVerification]

\* no call has returned yet
NoPrevious == [token |-> NoneToken, outcome |-> NoOutcome]

\* no concurrent call is running
NoCalls == <<>>

\* the middleware has not been constructed
NoDocs == [phase |-> "absent"]

\* the lifespan module has not been imported
NoLife == [phase |-> "absent"]

InitRest ==
    /\ previous = NoPrevious
    /\ calls = NoCalls
    /\ docs = NoDocs
    /\ life = NoLife

InitAuth ==
    /\ now = StartTime
    /\ ticks = 0
    /\ users = [e \in Emails |->
                  IF e = "ann@x" THEN UserRow(e, "user", TRUE, TRUE)
                  ELSE UserRow(e, "user", TRUE, FALSE)]
    /\ session = NoneToken
    /\ issued_at = 0
    /\ pc = "idle"
    /\ header = NoHeader
    /\ token = NoneToken
    /\ payload = NoClaims
    /\ user_email = ""
    /\ user = NoUser
    /\ checked_at = NoReads
    /\ raised = NoRaise
    /\ outcome = NoOutcome
    /\ history = <<>>
    /\ direct = NoDirect

Init == InitAuth /\ pwd = NoPwd /\ InitRest

\* ------------------------------------------------------------------------
\* Environment
\* ------------------------------------------------------------------------
\* the clock advances by d seconds
Tick(d) ==
    /\ ticks < MaxTicks
    /\ now' = now + d
    /\ ticks' = ticks + 1
    /\ UNCHANGED <<users, session, issued_at, pc, header, token, payload, user_email,
                   user, checked_at, raised, outcome, history, direct, pwd, rest>>

\* the login of the behaviour: create_payload for a stored user, then
\* generate_token
Issue(e) ==
    /\ session = NoneToken
    /\ users[e].present
    /\ session' = generate_token(create_payload(users[e], now))
    /\ issued_at' = now
    /\ UNCHANGED <<now, ticks, users, pc, header, token, payload, user_email,
                   user, checked_at, raised, outcome, history, direct, pwd, rest>>

\* the store changes: a user is added, removed or updated
ChangeUser(e, row) ==
    /\ row # users[e]
    /\ users' = [users EXCEPT ![e] = row]
    /\ UNCHANGED <<now, ticks, session, issued_at, pc, header, token, payload,
                   user_email, user, checked_at, raised, outcome, history,
                   direct, pwd, rest>>

\* ------------------------------------------------------------------------
\* get_current_user, stage by stage
\* ------------------------------------------------------------------------
\* an exception of class kind leaves get_current_user from stage:
\* TokenPresence raises outside the try block, the later stages inside it
Fail(stage, kind) ==
    /\ raised' = [stage |-> stage, kind |-> kind]
    /\ outcome' = [kind |-> IF stage = "TokenPresence" THEN kind
                            ELSE Surface(kind),
                   identity |-> NoIdentity]
    /\ pc' = "returned"

\* a request arrives; the framework resolves the token argument
Start(h) ==
    /\ pc = "idle"
    /\ direct.op = ""
    /\ header' = h
    /\ token' = oauth2_scheme(h)
    /\ pc' = "TokenPresence"
    /\ UNCHANGED <<env, payload, user_email, user, checked_at, raised,
                   outcome, history, direct, pwd, rest>>

\* if not token: raise TokenMissingError()
TokenPresence ==
    /\ pc = "TokenPresence"
    /\ history' = Append(history, "TokenPresence")
    /\ IF Falsy(token)
       THEN Fail("TokenPresence", "TokenMissingError")
       ELSE pc' = "TokenVerify" /\ UNCHANGED <<raised, outcome>>
    /\ UNCHANGED <<env, header, token, payload, user_email, user, checked_at,
                   direct, pwd, rest>>

\* payload = TokenManager.verify_token(token)
TokenVerify ==
    /\ pc = "TokenVerify"
    /\ history' = Append(history, "TokenVerify")
    /\ LET r == verify_token(token, now)
       IN  IF r.err # ""
           THEN Fail("TokenVerify", r.err) /\ UNCHANGED payload
           ELSE /\ payload' = r.claims
                /\ pc' = "ClaimValidate"
                /\ UNCHANGED <<raised, outcome>>
    /\ UNCHANGED <<env, header, token, user_email, user, checked_at, direct,
                   pwd, rest>>

\* user_email = TokenManager.validate_payload(payload)
ClaimValidate ==
    /\ pc = "ClaimValidate"
    /\ history' = Append(history, "ClaimValidate")
    /\ LET r == validate_payload(payload, now)
       IN  /\ checked_at' = IF r.examined
                            THEN [checked_at EXCEPT !.validate = now]
                            ELSE checked_at
           /\ IF r.err # ""
              THEN Fail("ClaimValidate", r.err) /\ UNCHANGED user_email
              ELSE /\ user_email' = r.email
                   /\ pc' = "UserLookup"
                   /\ UNCHANGED <<raised, outcome>>
    /\ UNCHANGED <<env, header, token, payload, user, direct, pwd, rest>>

UserLookup_cached(fails) ==
    /\ pc = "UserLookup"
    /\ history' = Append(history, "UserLookup")
    /\ IF fails
       THEN Fail("UserLookup", "LookupFailure") /\ UNCHANGED user
       ELSE /\ user' =
                 IF previous.token = token /\ previous.outcome.kind = "Identity"
                 THEN [present |-> TRUE,
                       id |-> previous.outcome.identity.id,
                       username |-> previous.outcome.identity.username,
                       email |-> previous.outcome.identity.email,
                       role |-> previous.outcome.identity.role,
                       is_active |-> previous.outcome.identity.is_active,
                       is_verified |-> previous.outcome.identity.is_verified]
                 ELSE get_user_by_identifier(users, user_email)
            /\ IF ~user'.present
               THEN Fail("UserLookup", AbsentUserError)
               ELSE pc' = "Done" /\ UNCHANGED <<raised, outcome>>
    /\ UNCHANGED <<env, header, token, payload, user_email, checked_at,
                   direct, pwd, rest>>

UserLookup_active_only(fails) ==
    /\ pc = "UserLookup"
    /\ history' = Append(history, "UserLookup")
    /\ IF fails
       THEN Fail("UserLookup", "LookupFailure") /\ UNCHANGED user
       ELSE /\ user' = get_user_by_identifier(users, user_email)
            /\ IF ~user'.present \/ ~user'.is_active
               THEN Fail("UserLookup", AbsentUserError)
               ELSE pc' = "Done" /\ UNCHANGED <<raised, outcome>>
    /\ UNCHANGED <<env, header, token, payload, user_email, checked_at,
                   direct, pwd, rest>>

\* user = await auth_service.get_user_by_identifier(user_email), which
\* returns or raises; if not user: raise InvalidCredentialsError()
UserLookup(fails) ==
    /\ pc = "UserLookup"
    /\ history' = Append(history, "UserLookup")
    /\ IF fails
       THEN Fail("UserLookup", "LookupFailure") /\ UNCHANGED user
       ELSE /\ user' = get_user_by_identifier(users, user_email)
            /\ IF ~user'.present
               THEN Fail("UserLookup", AbsentUserError)
               ELSE pc' = "Done" /\ UNCHANGED <<raised, outcome>>
    /\ UNCHANGED <<env, header, token, payload, user_email, checked_at,
                   direct, pwd, rest>>

Done_from_claims ==
    /\ pc = "Done"
    /\ history' = Append(history, "Done")
    /\ IF model_validate(user) # ""
       THEN Fail("Done", model_validate(user))
       ELSE /\ outcome' =
                 [kind |-> "Identity",
                  identity |-> [CurrentUserSchema(user) EXCEPT
                                  !.role = payload.role.s,
                                  !.is_verified = (payload.is_verified.n = 1)]]
            /\ pc' = "returned"
            /\ UNCHANGED raised
    /\ UNCHANGED <<env, header, token, payload, user_email, user, checked_at,
                   direct, pwd, rest>>

\* user_schema = UserCredentialsSchema.model_validate(user);
\* return CurrentUserSchema(...)
Done ==
    /\ pc = "Done"
    /\ history' = Append(history, "Done")
    /\ IF model_validate(user) # ""
       THEN Fail("Done", model_validate(user))
       ELSE /\ outcome' = [kind |-> "Identity",
                           identity |-> CurrentUserSchema(user)]
            /\ pc' = "returned"
            /\ UNCHANGED raised
    /\ UNCHANGED <<env, header, token, payload, user_email, user, checked_at,
                   direct, pwd, rest>>

\* the frame of the call is dropped; nothing of the call is kept
EndCall ==
    /\ pc = "returned"
    /\ pc' = "idle"
    /\ header' = NoHeader
    /\ token' = NoneToken
    /\ payload' = NoClaims
    /\ user_email' = ""
    /\ user' = NoUser
    /\ checked_at' = NoReads
    /\ raised' = NoRaise
    /\ outcome' = NoOutcome
    /\ history' = <<>>
    /\ UNCHANGED <<env, direct, pwd>>

\* the request ends
Finish == EndCall /\ UNCHANGED rest

\* the request ends and its caller keeps what it got for the token
FinishObserved ==
    /\ EndCall
    /\ previous' = [token |-> token, outcome |-> outcome]
    /\ UNCHANGED <<calls, docs, life>>

\* ------------------------------------------------------------------------
\* TokenManager called directly, by a caller other than get_current_user
\* ------------------------------------------------------------------------
call ==
    <<pc, header, token, payload, user_email, user, checked_at, raised,
      outcome, history>>

\* payloads a caller hands to generate_token
PayloadInputs(store, t) ==
    CraftedClaims
    \cup {create_payload(store[e], t) : e \in {m \in Emails : store[m].present}}

\* generate_token(c)
SignDirect(c) ==
    /\ pc = "idle"
    /\ direct.op = ""
    /\ direct' = [op |-> "generate_token", signed |-> TRUE, payload |-> c,
                  token |-> generate_token(c), result |-> Ok(NoClaims),
                  calls |-> <<"generate_token">>, at |-> now]
    /\ UNCHANGED <<env, call, pwd, rest>>

\* verify_token on the token generate_token has just returned
VerifyGenerated ==
    /\ direct.op = "generate_token"
    /\ direct' = [direct EXCEPT !.op = "verify_token",
                                !.result = verify_token(direct.token, now),
                                !.calls = verify_token_calls(direct.token),
                                !.at = now]
    /\ UNCHANGED <<env, call, pwd, rest>>

\* verify_token(tok) on a token received from outside
VerifyDirect(tok) ==
    /\ pc = "idle"
    /\ direct.op = ""
    /\ direct' = [op |-> "verify_token", signed |-> FALSE,
                  payload |-> NoClaims, token |-> tok,
                  result |-> verify_token(tok, now),
                  calls |-> verify_token_calls(tok), at |-> now]
    /\ UNCHANGED <<env, call, pwd, rest>>

\* the direct call is over
DirectReturn ==
    /\ direct.op # ""
    /\ direct' = NoDirect
    /\ UNCHANGED <<env, call, pwd, rest>>

TickSteps == {1, get_token_expiration}

Next ==
    \/ \E d \in TickSteps : Tick(d)
    \/ \E e \in Emails : Issue(e)
    \/ \E e \in Emails : \E row \in RowsOf(e) : ChangeUser(e, row)
    \/ \E h \in Headers(session) : Start(h)
    \/ TokenPresence
    \/ TokenVerify
    \/ ClaimValidate
    \/ \E fails \in BOOLEAN : UserLookup(fails)
    \/ Done
    \/ Finish

Spec == Init /\ [][Next]_vars

\* one client presenting the token of its login again and again while
\* the user store changes
NextRepeat ==
    \/ \E d \in TickSteps : Tick(d)
    \/ \E e \in Emails : Issue(e)
    \/ \E e \in Emails : \E row \in RowsOf(e) : ChangeUser(e, row)
    \/ \E h \in {NoHeader, Bearer(session)} : Start(h)
    \/ TokenPresence
    \/ TokenVerify
    \/ ClaimValidate
    \/ \E fails \in BOOLEAN : UserLookup(fails)
    \/ Done
    \/ FinishObserved

SpecRepeat == Init /\ [][NextRepeat]_vars

\* ------------------------------------------------------------------------
\* get_current_user calls running concurrently on one event loop.  A call
\* runs without interruption up to its await of the lookup, the lookup
\* reads the store while the call is suspended, and the call resumes to
\* build its result.
\* ------------------------------------------------------------------------
\* calls in flight together
NumCalls == 2

CallIds == 1..NumCalls

NoFrame ==
    [pc |-> "idle", token |-> NoneToken, t |-> 0, payload |-> NoClaims,
     user_email |-> "", asked |-> "", failed |-> FALSE, user |-> NoUser,
     outcome |-> NoOutcome]

\* tokens the concurrent callers present
ConcurrentTokens ==
    {NoneToken,
     generate_token(create_payload(UserRow("ann@x", "user", TRUE, TRUE),
                                   StartTime)),
     generate_token(create_payload(UserRow("bob@x", "user", TRUE, FALSE),
                                   StartTime)),
     generate_token(ClaimSet(JStr("ann@x"), JInt(Soon), Absent, JInt(1),
                             JBool(TRUE), JStr("user")))}

\* what the store holds for ann while the calls run: her row, or nothing
ConcurrentRows == {UserRow("ann@x", "user", TRUE, TRUE), NoUser}

Failed(kind) == [kind |-> kind, identity |-> NoIdentity]

\* get_current_user run alone on a token at clock reading t, the lookup
\* raising (fails) or returning found
get_current_user(tok, t, fails, found) ==
    IF Falsy(tok) THEN Failed("TokenMissingError")
    ELSE IF verify_token(tok, t).err # ""
         THEN Failed(Surface(verify_token(tok, t).err))
    ELSE IF validate_payload(verify_token(tok, t).claims, t).err # ""
         THEN Failed(Surface(validate_payload(verify_token(tok, t).claims,
                                              t).err))
    ELSE IF fails THEN Failed(Surface("LookupFailure"))
    ELSE IF ~found.present THEN Failed(Surface(AbsentUserError))
    ELSE IF model_validate(found) # ""
         THEN Failed(Surface(model_validate(found)))
    ELSE [kind |-> "Identity", identity |-> CurrentUserSchema(found)]

InitConcurrent ==
    /\ InitAuth
    /\ pwd = NoPwd
    /\ previous = NoPrevious
    /\ calls = [i \in CallIds |-> NoFrame]
    /\ docs = NoDocs
    /\ life = NoLife

\* call i starts and runs to its first await: the presence check,
\* verify_token and validate_payload
Enter(i, tok) ==
    /\ calls[i].pc = "idle"
    /\ LET v == verify_token(tok, now)
           c == validate_payload(v.claims, now)
           frame == [NoFrame EXCEPT !.token = tok, !.t = now]
       IN  calls' =
             [calls EXCEPT ![i] =
                IF Falsy(tok)
                THEN [frame EXCEPT !.pc = "returned",
                                   !.outcome = Failed("TokenMissingError")]
                ELSE IF v.err # ""
                THEN [frame EXCEPT !.pc = "returned",
                                   !.outcome = Failed(Surface(v.err))]
                ELSE IF c.err # ""
                THEN [frame EXCEPT !.pc = "returned", !.payload = v.claims,
                                   !.outcome = Failed(Surface(c.err))]
                ELSE [frame EXCEPT !.pc = "awaiting", !.payload = v.claims,
                                   !.user_email = c.email]]
    /\ UNCHANGED <<auth, pwd, previous, docs, life>>

Lookup_shared(i, fails) ==
    /\ calls[i].pc = "awaiting"
    /\ LET last == CHOOSE j \in CallIds :
                     /\ calls[j].pc = "awaiting"
                     /\ \A k \in CallIds : calls[k].pc = "awaiting" => k <= j
       IN  calls' = [calls EXCEPT
             ![i].pc = "resumed",
             ![i].asked = calls[last].user_email,
             ![i].failed = fails,
             ![i].user = IF fails THEN NoUser
                         ELSE get_user_by_identifier(users,
                                                     calls[last].user_email)]
    /\ UNCHANGED <<auth, pwd, previous, docs, life>>

\* the collaborator serves call i: it raises, or reads the store
Lookup(i, fails) ==
    /\ calls[i].pc = "awaiting"
    /\ calls' = [calls EXCEPT
          ![i].pc = "resumed",
          ![i].asked = calls[i].user_email,
          ![i].failed = fails,
          ![i].user = IF fails THEN NoUser
                      ELSE get_user_by_identifier(users, calls[i].user_email)]
    /\ UNCHANGED <<auth, pwd, previous, docs, life>>

\* call i resumes after the await and returns or raises
Resume(i) ==
    /\ calls[i].pc = "resumed"
    /\ LET f == calls[i]
       IN  calls' = [calls EXCEPT
             ![i].pc = "returned",
             ![i].outcome =
                IF f.failed THEN Failed(Surface("LookupFailure"))
                ELSE IF ~f.user.present THEN Failed(Surface(AbsentUserError))
                ELSE IF model_validate(f.user) # ""
                     THEN Failed(Surface(model_validate(f.user)))
                ELSE [kind |-> "Identity",
                      identity |-> CurrentUserSchema(f.user)]]
    /\ UNCHANGED <<auth, pwd, previous, docs, life>>

NextConcurrent ==
    \/ Tick(1)
    \/ \E row \in ConcurrentRows : ChangeUser("ann@x", row)
    \/ \E i \in CallIds : \E tok \in ConcurrentTokens : Enter(i, tok)
    \/ \E i \in CallIds : \E fails \in BOOLEAN : Lookup(i, fails)
    \/ \E i \in CallIds : Resume(i)

SpecConcurrent == InitConcurrent /\ [][NextConcurrent]_vars

\* ------------------------------------------------------------------------
\* DocsAuthMiddleware (app/core/middlewares/docs_auth.py)
\* ------------------------------------------------------------------------
DOCS_USERNAME == "admin"

DOCS_PASSWORD == "DOCS-SECRET"

\* lifetime of an auth_cache entry, seconds
CacheSeconds == 3600

DocsPaths == {"/docs", "/redoc", "/openapi.json"}

Paths == DocsPaths \cup {"/api/v1/users"}

ClientIps == {"10.0.0.1", "10.0.0.2"}

\* the Authorization header of a request to the middleware
NoAuthorization == [scheme |-> "", wellformed |-> FALSE, username |-> "",
                    password |-> ""]

BasicAuthorization(u, p) ==
    [scheme |-> "Basic", wellformed |-> TRUE, username |-> u, password |-> p]

Authorizations ==
    {NoAuthorization,
     BasicAuthorization(DOCS_USERNAME, DOCS_PASSWORD),
     BasicAuthorization(DOCS_USERNAME, "guess"),
     BasicAuthorization("root", DOCS_PASSWORD),
     [scheme |-> "Basic", wellformed |-> FALSE, username |-> "",
      password |-> ""],
     [scheme |-> "Bearer", wellformed |-> TRUE, username |-> DOCS_USERNAME,
      password |-> DOCS_PASSWORD]}

NoRequest == [path |-> "", ip |-> "", authorization |-> NoAuthorization]

NoEntry == [present |-> FALSE, timestamp |-> 0]

\* security(request): HTTPBasic returns the credentials of a well-formed
\* Basic header and raises HTTPException(401) for anything else
security(authorization) ==
    IF authorization.scheme = "Basic" /\ authorization.wellformed
    THEN [err |-> "", username |-> authorization.username,
          password |-> authorization.password]
    ELSE [err |-> "HTTPException", username |-> "", password |-> ""]

\* auth.username == settings.DOCS_USERNAME and
\* auth.password == settings.DOCS_PASSWORD.get_secret_value()
credentials_match(credentials) ==
    /\ credentials.err = ""
    /\ credentials.username = DOCS_USERNAME
    /\ credentials.password = DOCS_PASSWORD

cache_valid_inclusive(cached_auth, current_time) ==
    cached_auth.present /\ current_time - cached_auth.timestamp <= CacheSeconds

\* cached_auth and current_time - cached_auth["timestamp"] < 3600
cache_valid(cached_auth, current_time) ==
    cached_auth.present /\ current_time - cached_auth.timestamp < CacheSeconds

\* DocsAuthMiddleware(app) with settings.DOCS_ACCESS = access
DocsReady(access) ==
    [phase |-> "ready", access |-> access,
     auth_cache |-> [ip \in ClientIps |-> NoEntry],
     request |-> NoRequest, response |-> "", at |-> 0,
     before |-> [ip \in ClientIps |-> NoEntry],
     presented |-> [ip \in ClientIps |-> NoEntry]]

InitDocs ==
    /\ InitAuth
    /\ pwd = NoPwd
    /\ previous = NoPrevious
    /\ calls = NoCalls
    /\ docs \in {DocsReady(access) : access \in BOOLEAN}
    /\ life = NoLife

\* the response of dispatch and the auth_cache it leaves
dispatch(request, access, auth_cache, current_time) ==
    IF request.path \notin DocsPaths
    THEN [response |-> "call_next", auth_cache |-> auth_cache]
    ELSE IF ~access
    THEN [response |-> "HTTPException(403)", auth_cache |-> auth_cache]
    ELSE IF cache_valid(auth_cache[request.ip], current_time)
    THEN [response |-> "call_next", auth_cache |-> auth_cache]
    ELSE IF request.authorization.scheme = ""
    THEN [response |-> "401", auth_cache |-> auth_cache]
    ELSE IF credentials_match(security(request.authorization))
    THEN [response |-> "call_next",
          auth_cache |-> [auth_cache EXCEPT ![request.ip] =
                            [present |-> TRUE, timestamp |-> current_time]]]
    ELSE [response |-> "401", auth_cache |-> auth_cache]

\* a request passes through DocsAuthMiddleware.dispatch; presented keeps,
\* per client, when it last sent the configured credentials to a
\* documentation path
Dispatch(path, ip, authorization) ==
    /\ docs.phase = "ready"
    /\ LET request == [path |-> path, ip |-> ip,
                       authorization |-> authorization]
           r == dispatch(request, docs.access, docs.auth_cache, now)
       IN  docs' = [docs EXCEPT
             !.request = request,
             !.response = r.response,
             !.at = now,
             !.before = docs.auth_cache,
             !.auth_cache = r.auth_cache,
             !.presented =
                IF /\ path \in DocsPaths
                   /\ docs.access
                   /\ authorization = BasicAuthorization(DOCS_USERNAME,
                                                         DOCS_PASSWORD)
                THEN [@ EXCEPT ![ip] = [present |-> TRUE, timestamp |-> now]]
                ELSE @]
    /\ UNCHANGED <<auth, pwd, previous, calls, life>>

\* waits between requests
DocsSteps == {1, CacheSeconds - 1}

NextDocs ==
    \/ \E d \in DocsSteps : Tick(d)
    \/ \E path \in Paths : \E ip \in ClientIps :
          \E authorization \in Authorizations :
             Dispatch(path, ip, authorization)

SpecDocs == InitDocs /\ [][NextDocs]_vars

\* ------------------------------------------------------------------------
\* Application lifecycle (app/core/lifespan/base.py)
\* ------------------------------------------------------------------------
\* handlers registered in one behaviour
MaxHandlers == 3

\* what a handler does when awaited: it returns, raises an Exception, or
\* raises a BaseException that is no Exception (asyncio.CancelledError)
Behaviours == {"returns", "Exception", "CancelledError"}

\* startup_handlers = [], shutdown_handlers = []
Imported ==
    [phase |-> "imported", startup_handlers |-> <<>>,
     shutdown_handlers |-> <<>>, index |-> 0, log |-> <<>>]

InitLifespan ==
    /\ InitAuth
    /\ pwd = NoPwd
    /\ previous = NoPrevious
    /\ calls = NoCalls
    /\ docs = NoDocs
    /\ life = Imported

Registered == Len(life.startup_handlers) + Len(life.shutdown_handlers)

\* a handler: the order of its registration, the phase it was registered
\* in, and what it does
Handler(behaviour) ==
    [id |-> Registered + 1, registered_in |-> life.phase,
     behaviour |-> behaviour]

\* register_startup_handler(handler)
register_startup_handler(behaviour) ==
    /\ life.phase \in {"imported", "startup", "serving", "shutdown"}
    /\ Registered < MaxHandlers
    /\ life' = [life EXCEPT !.startup_handlers = Append(@, Handler(behaviour))]
    /\ UNCHANGED <<auth, pwd, previous, calls, docs>>

\* register_shutdown_handler(handler)
register_shutdown_handler(behaviour) ==
    /\ life.phase \in {"imported", "startup", "serving", "shutdown"}
    /\ Registered < MaxHandlers
    /\ life' = [life EXCEPT !.shutdown_handlers = Append(@, Handler(behaviour))]
    /\ UNCHANGED <<auth, pwd, previous, calls, docs>>

\* the server enters lifespan(app): run_startup_handlers begins
lifespan ==
    /\ life.phase = "imported"
    /\ life' = [life EXCEPT !.phase = "startup", !.index = 1]
    /\ UNCHANGED <<auth, pwd, previous, calls, docs>>

\* one pass of a handler loop over handlers: try: await handler(app);
\* except Exception: logger.error(...)
run_handler(handlers) ==
    LET handler == handlers[life.index]
        entry(result) == [phase |-> life.phase, id |-> handler.id,
                          result |-> result]
    IN  IF handler.behaviour = "returns"
        THEN [life EXCEPT !.index = @ + 1, !.log = Append(@, entry("returned"))]
        ELSE IF handler.behaviour = "Exception"
        THEN [life EXCEPT !.index = @ + 1, !.log = Append(@, entry("logged"))]
        ELSE [life EXCEPT !.phase = "aborted",
                          !.log = Append(@, entry("propagated"))]

run_startup_handlers_break ==
    /\ life.phase = "startup"
    /\ life.index <= Len(life.startup_handlers)
    /\ life' =
         IF life.startup_handlers[life.index].behaviour = "Exception"
         THEN [run_handler(life.startup_handlers) EXCEPT
                 !.index = Len(life.startup_handlers) + 1]
         ELSE run_handler(life.startup_handlers)
    /\ UNCHANGED <<auth, pwd, previous, calls, docs>>

\* run_startup_handlers: the next handler of the loop
run_startup_handlers ==
    /\ life.phase = "startup"
    /\ life.index <= Len(life.startup_handlers)
    /\ life' = run_handler(life.startup_handlers)
    /\ UNCHANGED <<auth, pwd, previous, calls, docs>>

\* the startup loop is over: yield, the application serves
yield ==
    /\ life.phase = "startup"
    /\ life.index > Len(life.startup_handlers)
    /\ life' = [life EXCEPT !.phase = "serving", !.index = 0]
    /\ UNCHANGED <<auth, pwd, previous, calls, docs>>

\* the server stops serving: lifespan resumes after the yield
stop_serving ==
    /\ life.phase = "serving"
    /\ life' = [life EXCEPT !.phase = "shutdown", !.index = 1]
    /\ UNCHANGED <<auth, pwd, previous, calls, docs>>

\* run_shutdown_handlers: the next handler of the loop
run_shutdown_handlers ==
    /\ life.phase = "shutdown"
    /\ life.index <= Len(life.shutdown_handlers)
    /\ life' = run_handler(life.shutdown_handlers)
    /\ UNCHANGED <<auth, pwd, previous, calls, docs>>

\* the shutdown loop is over: lifespan returns
lifespan_exit ==
    /\ life.phase = "shutdown"
    /\ life.index > Len(life.shutdown_handlers)
    /\ life' = [life EXCEPT !.phase = "stopped", !.index = 0]
    /\ UNCHANGED <<auth, pwd, previous, calls, docs>>

NextLifespan ==
    \/ \E behaviour \in Behaviours : register_startup_handler(behaviour)
    \/ \E behaviour \in Behaviours : register_shutdown_handler(behaviour)
    \/ lifespan
    \/ run_startup_handlers
    \/ yield
    \/ stop_serving
    \/ run_shutdown_handlers
    \/ lifespan_exit

SpecLifespan == InitLifespan /\ [][NextLifespan]_vars

\* get_current_user and direct callers of TokenManager over a fixed user store
NextCodec ==
    \/ \E d \in TickSteps : Tick(d)
    \/ \E e \in Emails : Issue(e)
    \/ \E h \in Headers(session) : Start(h)
    \/ TokenPresence
    \/ TokenVerify
    \/ ClaimValidate
    \/ \E fails \in BOOLEAN : UserLookup(fails)
    \/ Done
    \/ Finish
    \/ \E c \in PayloadInputs(users, now) : SignDirect(c)
    \/ VerifyGenerated
    \/ \E tok \in TokenInputs(session) \cup {NoneToken} : VerifyDirect(tok)
    \/ DirectReturn

SpecCodec == Init /\ [][NextCodec]_vars

\* ------------------------------------------------------------------------
\* PasswordHasher and BasePasswordValidator, called by the schemas and
\* services of the application
\* ------------------------------------------------------------------------
\* hash_password calls in one behaviour
MaxHashes == 2

\* the passwords hashed and offered to verify
Plaintexts ==
    {Text(<<"S", "e", "c", "r", "e", "t", "1", "2", "3", "!">>),
     Text(<<"S", "e", "c", "r", "e", "t", "1", "2", "3">>),
     Text(<<"w", "r", "o", "n", "g">>)}

\* pieces the validated passwords are made of
Fragments ==
    {<<>>,
     Text(<<"a", "b", "c">>),
     Text(<<"Q">>),
     Text(<<"7">>),
     Text(<<"!">>),
     Text(<<"1", "2", "3", "4", "5">>),
     Text(<<"A", "d", "M", "i", "N">>),
     Text(<<"J", "o", "h", "n", "D", "o", "e">>),
     Text(<<"z", "z", "z", "z", "z", "7", "!">>),
     Text(<<"CYR-YO">>),
     Text(<<"E-acute">>),
     Text(<<"CYR-YA">>)}

Passwords == {a \o b \o c : a \in Fragments, b \in Fragments, c \in Fragments}

Usernames ==
    {NoUsername,
     Username(<<>>),
     Username(<<"D", "o", "e">>),
     Username(<<"j", "o", "h", "n">>),
     Username(<<"J", "O", "H", "N", "D", "O", "E">>)}

\* the salts the library has not drawn yet; a salt is 16 random bytes and
\* is taken never to repeat
FreshSalts(hashes) ==
    (1..(Len(hashes) + 1)) \ {hashes[i].hash.salt : i \in 1..Len(hashes)}

\* the hash strings handed to verify: stored ones, stored ones with a
\* damaged body, and strings that never were Argon2 hashes
HashInputs(hashes) ==
    {hashes[i].hash : i \in 1..Len(hashes)}
    \cup {[hashes[i].hash EXCEPT !.form = "malformed"] : i \in 1..Len(hashes)}
    \cup {UnknownHash, MalformedHash}

InitPwd == InitAuth /\ pwd = NoPwd /\ InitRest

\* PasswordHasher.hash_password(p)
HashPassword(p, salt) ==
    /\ pwd.op = ""
    /\ Len(pwd.hashes) < MaxHashes
    /\ pwd' = [pwd EXCEPT !.op = "hash_password",
                          !.password = p,
                          !.hash = hash_password(p, salt),
                          !.hashes = Append(@, [plain |-> p,
                                                hash |-> hash_password(p, salt)])]
    /\ UNCHANGED <<auth, rest>>

\* PasswordHasher.verify(h, q)
VerifyPassword(h, q) ==
    /\ pwd.op = ""
    /\ pwd' = [pwd EXCEPT !.op = "verify",
                          !.password = q,
                          !.hash = h,
                          !.verified = verify(h, q)]
    /\ UNCHANGED <<auth, rest>>

\* BasePasswordValidator.validate_password_strength(p, u)
ValidatePassword(p, u) ==
    /\ pwd.op = ""
    /\ pwd' = [pwd EXCEPT !.op = "validate_password_strength",
                          !.password = p,
                          !.username = u,
                          !.validated = validate_password_strength(p, u)]
    /\ UNCHANGED <<auth, rest>>

\* the call is over
ReturnPwd ==
    /\ pwd.op # ""
    /\ pwd' = [NoPwd EXCEPT !.hashes = pwd.hashes]
    /\ UNCHANGED <<auth, rest>>

\* the calls of PasswordHasher
NextHash ==
    \/ \E p \in Plaintexts : \E salt \in FreshSalts(pwd.hashes) :
          HashPassword(p, salt)
    \/ \E h \in HashInputs(pwd.hashes) : \E q \in Plaintexts :
          VerifyPassword(h, q)
    \/ ReturnPwd

SpecHash == InitPwd /\ [][NextHash]_vars

\* the calls of BasePasswordValidator
NextStrength ==
    \/ \E p \in Passwords : \E u \in Usernames : ValidatePassword(p, u)
    \/ ReturnPwd

SpecStrength == InitPwd /\ [][NextStrength]_vars

\* ------------------------------------------------------------------------
\* Properties
\* ------------------------------------------------------------------------
StageOrder ==
    <<"TokenPresence", "TokenVerify", "ClaimValidate", "UserLookup", "Done">>

\* the call has run the stage
Ran(stage) == \E i \in 1..Len(history) : history[i] = stage

\* the last stage the call has run
LastStage == IF history = <<>> THEN "" ELSE history[Len(history)]

\* the call presents the token the login issued
PresentsIssued == session.form = "jws" /\ token = session

\* C1: round trip.  Resolving the token issued by create_payload and
\* generate_token, read before its expiry, with a lookup that returns the
\* matching (schema-valid) user, succeeds and yields an identity whose
\* email is the token's subject.
C1_RoundTrip ==
    ( /\ pc = "returned"
      /\ PresentsIssued
      /\ checked_at.validate <= json_loads(token.claims).expires_at.n
      /\ raised.kind # "LookupFailure"
      /\ Ran("UserLookup") =>
            /\ user.present
            /\ user.email = json_loads(token.claims).sub.s
            /\ model_validate(user) = "" )
    => /\ outcome.kind = "Identity"
       /\ outcome.identity.email = json_loads(token.claims).sub.s

C1_Witness ==
    /\ pc = "returned"
    /\ PresentsIssued
    /\ outcome.kind = "Identity"
    /\ outcome.identity.email = "bob@x"

\* C2: expiry boundary.  A token issued at issued_at with the configured
\* TTL passes claim validation when the clock reads exactly
\* issued_at + TTL and is rejected with TokenExpiredError when it reads
\* issued_at + TTL + 1; validation rejects for expiry exactly when the
\* reading is strictly greater than expires_at.
C2_ExpiryBoundary ==
    (Ran("ClaimValidate") /\ PresentsIssued)
    => /\ checked_at.validate = issued_at + get_token_expiration
            => raised.stage # "ClaimValidate"
       /\ checked_at.validate = issued_at + get_token_expiration + 1
            => raised = [stage |-> "ClaimValidate",
                         kind |-> "TokenExpiredError"]
       /\ raised = [stage |-> "ClaimValidate", kind |-> "TokenExpiredError"]
            <=> checked_at.validate > payload.expires_at.n

C2_Witness ==
    /\ Ran("ClaimValidate")
    /\ PresentsIssued
    /\ checked_at.validate = issued_at + get_token_expiration + 1
    /\ raised = [stage |-> "ClaimValidate", kind |-> "TokenExpiredError"]

\* C3: verification soundness.  Verifying a non-empty token that is not
\* authentic under the configured secret and algorithm (flipped signature,
\* claims altered after signing, malformed structure, another algorithm,
\* another key) never yields a payload: it fails with TokenInvalidError.
C3_VerifySoundness ==
    (Ran("TokenVerify") /\ ~Authentic(token))
    => /\ payload = NoClaims
       /\ raised = [stage |-> "TokenVerify", kind |-> "TokenInvalidError"]
       /\ outcome.kind = "TokenInvalidError"

C3_Witness ==
    /\ Ran("TokenVerify")
    /\ token.form = "jws"
    /\ token.sig.flip
    /\ outcome.kind = "TokenInvalidError"

C5_AbsentUser ==
    (pc = "returned" /\ LastStage = "UserLookup"
        /\ raised.kind # "LookupFailure")
    => /\ ~user.present
       /\ outcome.kind = "InvalidCredentialsError"

C5_Witness ==
    /\ pc = "returned"
    /\ LastStage = "UserLookup"
    /\ user_email = "ann@x"
    /\ ~user.present
    /\ outcome.kind = "InvalidCredentialsError"

\* C6: a verified token whose subject claim is missing or empty fails
\* claim validation, and the call, with InvalidCredentialsError.
C6_NoSubject ==
    (Ran("ClaimValidate") /\ (payload.sub = Absent \/ payload.sub = JStr("")))
    => /\ raised = [stage |-> "ClaimValidate",
                    kind |-> "InvalidCredentialsError"]
       /\ outcome.kind = "InvalidCredentialsError"

C6_Witness ==
    /\ Ran("ClaimValidate")
    /\ Authentic(token)
    /\ payload.sub = JStr("")
    /\ outcome.kind = "InvalidCredentialsError"

\* C7 (as claimed): a verified token with a non-empty subject and an
\* expires_at that is missing or not a timestamp fails claim validation,
\* and the call, with TokenExpiredError.
C7_UnparseableExpiryIsExpired ==
    ( /\ Ran("ClaimValidate")
      /\ payload.sub.t = "str" /\ payload.sub.s # ""
      /\ payload.expires_at.t \in {"absent", "null", "str"} )
    => /\ raised = [stage |-> "ClaimValidate", kind |-> "TokenExpiredError"]
       /\ outcome.kind = "TokenExpiredError"

\* exceptions that are no TokenError
UnexpectedErrors == {"TypeError", "LookupFailure", "ValidationError"}

\* C8: an unexpected error raised in verification or a later stage (the
\* lookup raising, the user failing schema validation, a TypeError)
\* reaches the caller as TokenInvalidError.
C8_UnexpectedMasked ==
    (pc = "returned" /\ raised.kind \in UnexpectedErrors)
    => outcome = [kind |-> "TokenInvalidError", identity |-> NoIdentity]

C8_Witness ==
    /\ pc = "returned"
    /\ raised = [stage |-> "Done", kind |-> "ValidationError"]
    /\ outcome.kind = "TokenInvalidError"

C10_FiveOutcomes ==
    /\ pc = "returned" <=> outcome.kind # ""
    /\ outcome.kind \in {"", "Identity", "TokenMissingError",
                         "TokenExpiredError", "TokenInvalidError",
                         "InvalidCredentialsError"}
    /\ outcome.kind = "Identity" <=> outcome.identity # NoIdentity
    /\ outcome.kind = "Identity" <=> (raised = NoRaise /\ LastStage = "Done")
    /\ Len(history) <= Len(StageOrder)
    /\ \A i \in 1..Len(history) : history[i] = StageOrder[i]
    /\ raised # NoRaise => (pc = "returned" /\ LastStage = raised.stage)
    /\ pc \notin {"idle", "returned"} => ENABLED
         (TokenPresence \/ TokenVerify \/ ClaimValidate
            \/ UserLookup(FALSE) \/ Done)

C10_Witness ==
    /\ pc = "returned"
    /\ Len(history) = Len(StageOrder)
    /\ outcome.kind = "Identity"

\* C16 as stated: every token generate_token returns carries expires_at
\* equal to the clock reading of the call plus the configured lifetime,
\* computed by generate_token itself.
C16_IssueComputesExpiry ==
    direct.op = "generate_token"
    => json_loads(direct.token.claims).expires_at
         = JInt(direct.at + TOKEN_EXPIRE_MINUTES * 60)

\* C16 amended: generate_token signs the payload it is given and adds
\* nothing; the token of create_payload followed by generate_token carries
\* expires_at equal to the clock reading of create_payload plus
\* TOKEN_EXPIRE_MINUTES * 60.
C16_CreatePayloadComputesExpiry ==
    /\ session.form = "jws"
         => /\ Authentic(session)
            /\ json_loads(session.claims).expires_at
                 = JInt(issued_at + TOKEN_EXPIRE_MINUTES * 60)
    /\ direct.op = "generate_token"
         => /\ Authentic(direct.token)
            /\ json_loads(direct.token.claims) = direct.payload

C16_Witness ==
    /\ session.form = "jws"
    /\ issued_at > StartTime
    /\ direct.op = "generate_token"
    /\ direct.payload.expires_at = Absent

\* C17 as stated: verify_token raises TokenExpiredError for a token with a
\* valid signature whose expires_at is before the clock reading of the
\* call.
C17_VerifyRejectsExpired ==
    ( /\ direct.op = "verify_token"
      /\ Authentic(direct.token)
      /\ json_loads(direct.token.claims).expires_at.t = "int"
      /\ json_loads(direct.token.claims).expires_at.n < direct.at )
    => direct.result.err = "TokenExpiredError"

C20_LookupAfterChecks ==
    /\ \A i \in 1..Len(history) : i <= Len(StageOrder) /\ history[i] = StageOrder[i]
    /\ Cardinality({i \in 1..Len(history) : history[i] = "UserLookup"}) <= 1
    /\ Ran("UserLookup")
         => /\ ~Falsy(token)
            /\ Authentic(token)
            /\ payload = json_loads(token.claims)
            /\ payload.sub.t = "str" /\ payload.sub.s # ""
            /\ user_email = payload.sub.s
            /\ payload.expires_at.t = "int"
            /\ payload.expires_at.n >= checked_at.validate
    /\ raised.stage \in {"TokenPresence", "TokenVerify", "ClaimValidate"}
         => ~Ran("UserLookup") /\ user = NoUser

C20_Witness ==
    /\ pc = "returned"
    /\ Ran("UserLookup")
    /\ token # session
    /\ checked_at.validate > StartTime

\* C11: two hash_password calls on one plaintext return different
\* strings; verify of a stored hash returns True for the plaintext it was
\* made of and False for every other plaintext.
C11_HashVerifiable ==
    /\ \A i, j \in 1..Len(pwd.hashes) :
          i # j => pwd.hashes[i].hash # pwd.hashes[j].hash
    /\ \A i \in 1..Len(pwd.hashes) :
          (pwd.op = "verify" /\ pwd.hash = pwd.hashes[i].hash)
          => pwd.verified
               = [err |-> "", value |-> (pwd.password = pwd.hashes[i].plain)]

C11_Witness ==
    /\ Len(pwd.hashes) = 2
    /\ pwd.hashes[1].plain = pwd.hashes[2].plain
    /\ pwd.op = "verify"
    /\ pwd.hash = pwd.hashes[2].hash
    /\ pwd.password = pwd.hashes[1].plain
    /\ pwd.verified.value

\* C12 as stated: verify returns a bool for every hash string, False
\* for one that is not a well-formed Argon2 hash; it never raises.
C12_VerifyNeverRaises ==
    pwd.op = "verify"
    => /\ pwd.verified.err = ""
       /\ pwd.hash.form # "argon2" => ~pwd.verified.value

\* the rules of validate_password_strength a password violates, by name
ViolatedRules(password, username) ==
    {r \in {"min_length", "uppercase", "lowercase", "digit", "special",
            "common_sequence", "username"} :
        \/ r = "min_length" /\ Len(password) < 8
        \/ r = "uppercase"
             /\ \A i \in 1..Len(password) :
                   password[i] \notin (65..90) \cup (1040..1071)
        \/ r = "lowercase"
             /\ \A i \in 1..Len(password) :
                   password[i] \notin (97..122) \cup (1072..1103)
        \/ r = "digit"
             /\ \A i \in 1..Len(password) : password[i] \notin 48..57
        \/ r = "special" /\ ~search_special(password)
        \/ r = "common_sequence"
             /\ \E seq \in common_sequences : Contains(lower(password), seq)
        \/ r = "username"
             /\ username.given
             /\ Len(username.str) > 3
             /\ Contains(lower(password), lower(username.str))}

\* the names in an errors list
Reported(errors) == {errors[i] : i \in 1..Len(errors)}

\* C13: the failure of validate_password_strength lists every rule the
\* password violates and no other, each once; "abc" without a username
\* is reported for length, upper case, digit and special character.
C13_AllRulesReported ==
    pwd.op = "validate_password_strength"
    => /\ Reported(pwd.validated.errors)
            = ViolatedRules(pwd.password, pwd.username)
       /\ Len(pwd.validated.errors) = Cardinality(Reported(pwd.validated.errors))
       /\ (pwd.password = Text(<<"a", "b", "c">>) /\ pwd.username = NoUsername)
            => pwd.validated.errors
                 = <<"min_length", "uppercase", "digit", "special">>

C13_Witness ==
    /\ pwd.op = "validate_password_strength"
    /\ pwd.password = Text(<<"a", "b", "c">>)
    /\ pwd.username = NoUsername
    /\ Len(pwd.validated.errors) = 4

\* C14: validate_password_strength returns the password it was given
\* exactly when the password violates no rule, and raises WeakPasswordError
\* in every other case.
C14_AllOrNothing ==
    pwd.op = "validate_password_strength"
    => IF ViolatedRules(pwd.password, pwd.username) = {}
       THEN pwd.validated.err = "" /\ pwd.validated.value = pwd.password
       ELSE pwd.validated.err = "WeakPasswordError"

C14_Witness ==
    /\ pwd.op = "validate_password_strength"
    /\ Cardinality(ViolatedRules(pwd.password, pwd.username)) = 1
    /\ pwd.validated.err = "WeakPasswordError"

\* C15: a username longer than 3 characters whose lower-case form occurs
\* in the lower-cased password makes validate_password_strength fail with
\* the username rule, whatever the character classes; without a username,
\* or with one of at most 3 characters, the username rule is not reported.
C15_UsernameContainment ==
    pwd.op = "validate_password_strength"
    => /\ ( /\ pwd.username.given
            /\ Len(pwd.username.str) > 3
            /\ Contains(lower(pwd.password), lower(pwd.username.str)) )
          => /\ pwd.validated.err = "WeakPasswordError"
             /\ "username" \in Reported(pwd.validated.errors)
       /\ (~pwd.username.given \/ Len(pwd.username.str) <= 3)
          => "username" \notin Reported(pwd.validated.errors)

C15_Witness ==
    /\ pwd.op = "validate_password_strength"
    /\ pwd.username = Username(<<"J", "O", "H", "N", "D", "O", "E">>)
    /\ pwd.validated.errors = <<"username">>

\* C21: the Identity of a successful call has the id, username, email,
\* role, is_active and is_verified of the user the lookup returned; the
\* role and is_verified claims of the token have no part in it.
C21_IdentityFromStore ==
    outcome.kind = "Identity"
    => /\ user.present
       /\ outcome.identity.id = user.id
       /\ outcome.identity.username = user.username
       /\ outcome.identity.email = user.email
       /\ outcome.identity.role = user.role
       /\ outcome.identity.is_active = user.is_active
       /\ outcome.identity.is_verified = user.is_verified

C21_Witness ==
    /\ outcome.kind = "Identity"
    /\ payload.role = JStr("user")
    /\ payload.is_verified = JBool(TRUE)
    /\ outcome.identity.role = "admin"
    /\ ~outcome.identity.is_verified

\* clock readings a call can make
Times ==
    {StartTime + a + b * get_token_expiration :
        a \in 0..MaxTicks, b \in 0..MaxTicks}

\* C26: for the payload of a verified token, validate_payload rejecting
\* with TokenExpiredError at one clock reading rejects with
\* TokenExpiredError at every later reading, and accepting at one reading
\* accepts at every earlier reading.
C26_ExpiryMonotone ==
    payload # NoClaims
    => \A t1 \in Times : \A t2 \in Times :
         t1 <= t2
         => /\ validate_payload(payload, t1).err = "TokenExpiredError"
                 => validate_payload(payload, t2).err = "TokenExpiredError"
            /\ validate_payload(payload, t2).err = ""
                 => validate_payload(payload, t1).err = ""

C26_Witness ==
    /\ raised = [stage |-> "ClaimValidate", kind |-> "TokenExpiredError"]
    /\ now > checked_at.validate
    /\ validate_payload(payload, checked_at.validate).err = "TokenExpiredError"
    /\ validate_payload(payload, now).err = "TokenExpiredError"
    /\ validate_payload(payload, StartTime).err = ""

\* C27: a payload without a subject whose expires_at is missing, not a
\* number or in the past fails validate_payload with
\* InvalidCredentialsError, and is_expired is not called for it.
C27_SubjectBeforeExpiry ==
    ( /\ Ran("ClaimValidate")
      /\ payload.sub \in {Absent, Null, JStr("")}
      /\ \/ payload.expires_at.t # "int"
         \/ payload.expires_at.n < now )
    => /\ raised.kind = "InvalidCredentialsError"
       /\ raised.kind # "TokenExpiredError"
       /\ checked_at = NoReads

C27_Witness ==
    /\ Ran("ClaimValidate")
    /\ payload.sub = Absent
    /\ payload.expires_at = JInt(Past)
    /\ outcome.kind = "InvalidCredentialsError"

\* C28: when the lookup returns a user, the call returns an Identity
\* whatever the user's is_active and is_verified flags are, and the
\* Identity carries them.
C28_FlagsIgnored ==
    ( /\ pc = "returned"
      /\ Ran("UserLookup")
      /\ user.present
      /\ model_validate(user) = "" )
    => /\ outcome.kind = "Identity"
       /\ outcome.identity.is_active = user.is_active
       /\ outcome.identity.is_verified = user.is_verified

C28_Witness ==
    /\ pc = "returned"
    /\ user.present
    /\ ~user.is_active
    /\ ~user.is_verified
    /\ outcome.kind = "Identity"
    /\ ~outcome.identity.is_active

\* the token is signed with the configured secret under the configured
\* algorithm, and says so in its header
UnderConfiguration(tok) ==
    /\ tok.alg = TOKEN_ALGORITHM
    /\ tok.sig.key = TOKEN_SECRET_KEY
    /\ tok.sig.alg = TOKEN_ALGORITHM

\* C24: whatever was called before and whatever the request carries,
\* generate_token signs with the configured secret and algorithm,
\* verify_token accepts only tokens signed with them, and create_payload
\* adds the configured lifetime; the token header, its signature and its
\* claims select none of the three.
C24_ConfigurationFixed ==
    /\ direct.op = "generate_token" => UnderConfiguration(direct.token)
    /\ session.form = "jws"
         => /\ UnderConfiguration(session)
            /\ json_loads(session.claims).expires_at.n - issued_at
                 = TOKEN_EXPIRE_MINUTES * 60
    /\ (direct.op = "verify_token" /\ direct.result.err = "")
         => UnderConfiguration(direct.token)
    /\ payload # NoClaims => UnderConfiguration(token)

C24_Witness ==
    /\ session.form = "jws"
    /\ issued_at > StartTime
    /\ direct.op = "verify_token"
    /\ direct.token.alg = "HS512"
    /\ direct.token.sig.key = TOKEN_SECRET_KEY
    /\ direct.result.err = "TokenInvalidError"

\* C25 as stated: a password holding an upper-case letter of any script
\* (the Latin-1 capitals, the Cyrillic block from U+0400) is not reported
\* for the upper-case rule.
C25_UnicodeUppercase ==
    ( /\ pwd.op = "validate_password_strength"
      /\ \E i \in 1..Len(pwd.password) :
           pwd.password[i] \in (65..90) \cup ((192..222) \ {215})
                                 \cup (1024..1071) )
    => "uppercase" \notin Reported(pwd.validated.errors)

\* C22: every call looks the user up in the store as it is at that call
\* and builds its result from what it found then: a user who is gone
\* fails the call, a changed user is returned changed, whatever an earlier
\* call with the same token returned.
C22_NoCache ==
    [][ /\ ( /\ pc = "UserLookup"
             /\ pc' # "UserLookup"
             /\ raised'.kind # "LookupFailure" )
           => /\ user' = get_user_by_identifier(users, user_email)
              /\ user'.present => pc' = "Done"
              /\ ~user'.present => outcome'.kind = "InvalidCredentialsError"
        /\ (pc = "Done" /\ outcome'.kind = "Identity")
           => outcome'.identity = CurrentUserSchema(user)
        /\ pc' = "idle" => (user' = NoUser /\ outcome' = NoOutcome)
      ]_vars

C22_Witness ==
    /\ pc = "returned"
    /\ token = session
    /\ previous.token = token
    /\ previous.outcome.kind = "Identity"
    /\ outcome.kind = "Identity"
    /\ outcome.identity # previous.outcome.identity

\* C23: under every interleaving, a call that has returned returned what
\* get_current_user returns when run alone on its token, its clock reading
\* and the result of its own lookup, and the lookup was asked for the
\* subject of that call's token.
C23_CallsIndependent ==
    \A i \in DOMAIN calls :
        /\ calls[i].pc \in {"resumed", "returned"} /\ calls[i].asked # ""
             => calls[i].asked
                  = validate_payload(verify_token(calls[i].token,
                                                  calls[i].t).claims,
                                     calls[i].t).email
        /\ calls[i].pc = "returned"
             => calls[i].outcome
                  = get_current_user(calls[i].token, calls[i].t,
                                     calls[i].failed, calls[i].user)

\* call 2 started first and is still suspended at its lookup; call 1
\* started later, for another user, and has returned its Identity
C23_Witness ==
    /\ calls # NoCalls
    /\ calls[2].pc = "awaiting"
    /\ calls[1].pc = "returned"
    /\ calls[2].t < calls[1].t
    /\ calls[1].outcome.kind = "Identity"
    /\ calls[1].outcome.identity.email # calls[2].user_email

Runs(phase) == SelectSeq(life.log, LAMBDA e : e.phase = phase)

\* C30: startup handlers run one after another in registration order and
\* all of them before the application serves; shutdown handlers run in
\* registration order and only after serving has ended; a handler that
\* raises an Exception is logged, and the handlers after it run and the
\* lifespan goes on as if it had returned.
C30_Lifecycle ==
    life.phase # "absent"
    => /\ \A k \in 1..Len(Runs("startup")) :
             Runs("startup")[k].id = life.startup_handlers[k].id
       /\ \A k \in 1..Len(Runs("shutdown")) :
             Runs("shutdown")[k].id = life.shutdown_handlers[k].id
       /\ \A i \in 1..Len(life.log) : \A j \in 1..Len(life.log) :
             (life.log[i].phase = "shutdown" /\ life.log[j].phase = "startup")
             => j < i
       /\ life.phase \in {"imported", "startup", "serving"}
             => Runs("shutdown") = <<>>
       /\ life.phase \in {"serving", "shutdown", "stopped"}
             => \A k \in 1..Len(life.startup_handlers) :
                  life.startup_handlers[k].registered_in = "imported"
                  => /\ k <= Len(Runs("startup"))
                     /\ Runs("startup")[k].result \in {"returned", "logged"}
       /\ life.phase = "stopped"
             => \A k \in 1..Len(life.shutdown_handlers) :
                  life.shutdown_handlers[k].registered_in
                      \in {"imported", "startup", "serving"}
                  => /\ k <= Len(Runs("shutdown"))
                     /\ Runs("shutdown")[k].result \in {"returned", "logged"}
       /\ \A i \in 1..Len(life.log) :
             life.log[i].result = "propagated"
             => (i = Len(life.log) /\ life.phase = "aborted")
       /\ life.phase = "aborted"
             => /\ life.log # <<>>
                /\ life.log[Len(life.log)].result = "propagated"

C30_Witness ==
    /\ life.phase = "stopped"
    /\ Len(life.log) = 3
    /\ life.log[1] = [phase |-> "startup", id |-> 1, result |-> "logged"]
    /\ life.log[2].phase = "startup"
    /\ life.log[3] = [phase |-> "shutdown", id |-> 3, result |-> "logged"]

====
